---- MODULE Spec2Model ----
(***************************************************************************)
(* The HomeScreen of the Amersfoort dog-zones app (src/app/(tabs)/index.tsx)*)
(* as a state machine: the initialization effect (classification of the    *)
(* GeoJSON features, per-category proximity merge, publication of the      *)
(* processed zone list), the location fetch, the nearest-zones effect, the  *)
(* selected-zone effect, the selection of a zone and the unmount; beside   *)
(* it the data filter script (src/unnamed/part_000) and a lone call of     *)
(* getDistance.                                                            *)
(*                                                                         *)
(* Numbers.  Coordinates are whole degrees, multiples of 60, so that every *)
(* cosine the haversine formula takes is a multiple of 1/2 and the         *)
(* formula is evaluated exactly.  Distances are whole kilometres.  Areas   *)
(* are tenths of a square metre (one fractional digit of OPPERVLAKTE).     *)
(* A JS string is the sequence of its characters.  An absent (undefined or *)
(* null) property of a JS object is a field the record does not have.      *)
(***************************************************************************)
EXTENDS Integers, Sequences, FiniteSets, TLC

VARIABLES
    document,          \* localDogZonesData, the imported JSON document
    pc,                \* position of initializeApp / refreshUserLocation
    initialAreaZones,  \* local of initializeApp
    initialPointZones, \* local of initializeApp
    mergeGroups,       \* per category, the member ids of every group
    processedZones,    \* React state
    loading,           \* React state
    error,             \* React state ("" is null)
    locationStatus,    \* React state
    userLocation,      \* React state (<<>> is null, else <<coords>>)
    nearestZones,      \* React state
    nearestPending,    \* the nearest-zones effect is scheduled to run
    selectedZone,      \* React state (<<>> is null, else <<zone>>)
    selectedPending,   \* the selected-zone effect is scheduled to run
    positionObtained,  \* history: setUserLocation(location) has happened
    isMounted,         \* local of the initialization effect
    pendingRequests,   \* refreshUserLocation calls that have not returned
    selectedZoneCopies,\* history: copies the selected-zone effect has made
                       \* of the zone since it was selected, modulo 2
    originalData,      \* filter script: the parsed input file
    scriptPc,          \* filter script: its position
    filteredFile,      \* filter script: the output file (<<>> is no file)
    distanceCall,      \* the arguments of a call of getDistance
    distanceResult     \* what the call returned (<<>> before it returns)

vars == <<document, pc, initialAreaZones, initialPointZones, mergeGroups,
          processedZones, loading, error, locationStatus, userLocation,
          nearestZones, nearestPending, selectedZone, selectedPending,
          positionObtained, isMounted, pendingRequests, selectedZoneCopies,
          originalData, scriptPc, filteredFile, distanceCall, distanceResult>>

\* the state of the HomeScreen
screenVars == <<document, pc, initialAreaZones, initialPointZones, mergeGroups,
                processedZones, loading, error, locationStatus, userLocation,
                nearestZones, nearestPending, selectedZone, selectedPending,
                positionObtained, isMounted, pendingRequests,
                selectedZoneCopies>>

\* the state of the filter script and of a lone call of getDistance
scriptVars == <<originalData, scriptPc, filteredFile>>
distanceVars == <<distanceCall, distanceResult>>

(***************************************************************************)
(* Program constants.                                                      *)
(***************************************************************************)
MERGE_DISTANCE_METERS == 100
MAX_NEAREST == 5
DEFAULT_ZONE_ID_PREFIX == "zone_"
MERGED_ZONE_ID_PREFIX == "merged_"

(***************************************************************************)
(* Bounds of the model.                                                    *)
(***************************************************************************)
MaxClassifyFeatures == 2   \* features per document, classification inputs
MaxMergeFeatures == 4      \* features per document, merge inputs
MaxRankFeatures == 7       \* features per document, ranking inputs
MaxScreenFeatures == 3     \* features per document, whole-screen inputs
MaxRecomputeFeatures == 2  \* features per document, recomputation inputs
MaxFilterFeatures == 3     \* features per document, filter script inputs
MaxLonSteps == 3           \* longitudes of a getDistance call, in steps of 60

(***************************************************************************)
(* JS values.  NaN and Undefined stand for the two non-numbers a JS        *)
(* number expression of this program can yield; arithmetic on either       *)
(* gives NaN and every comparison with NaN is false.                       *)
(***************************************************************************)
NaN == -1000000
Undefined == -2000000

IsNumber(x) == x # NaN /\ x # Undefined

\* arr[n] of a JS array (0-based); out of range is undefined
At(arr, n) == IF n + 1 \in DOMAIN arr THEN arr[n + 1] ELSE Undefined

\* `${n}` for the small non-negative integers the model uses
NumberToString(n) ==
    <<"0", "1", "2", "3", "4", "5", "6", "7", "8", "9">>[n + 1]

Digits == {"0", "1", "2", "3", "4", "5", "6", "7", "8", "9"}

DigitValue(c) ==
    CASE c = "0" -> 0 [] c = "1" -> 1 [] c = "2" -> 2 [] c = "3" -> 3
      [] c = "4" -> 4 [] c = "5" -> 5 [] c = "6" -> 6 [] c = "7" -> 7
      [] c = "8" -> 8 [] c = "9" -> 9

RECURSIVE SkipWhitespace(_)
SkipWhitespace(s) ==
    IF s # <<>> /\ Head(s) = " " THEN SkipWhitespace(Tail(s)) ELSE s

\* the longest prefix of decimal digits of s
RECURSIVE DigitPrefix(_)
DigitPrefix(s) ==
    IF s # <<>> /\ Head(s) \in Digits
    THEN <<Head(s)>> \o DigitPrefix(Tail(s))
    ELSE <<>>

RECURSIVE DecimalValue(_, _)
DecimalValue(ds, acc) ==
    IF ds = <<>> THEN acc
    ELSE DecimalValue(Tail(ds), 10 * acc + DigitValue(Head(ds)))

(***************************************************************************)
(* parseFloat(s): leading white space is skipped, then the longest prefix  *)
(* [+-] digits [. digits] is converted; NaN when that prefix has no digit. *)
(* The value is in tenths; fractional digits past the first are dropped    *)
(* (the inputs of the model have at most one).  Exponents and "Infinity"   *)
(* are not in the model's alphabet.                                        *)
(***************************************************************************)
parseFloat(str) ==
    LET s0 == SkipWhitespace(str)
        signed == s0 # <<>> /\ Head(s0) \in {"-", "+"}
        sign == IF s0 # <<>> /\ Head(s0) = "-" THEN -1 ELSE 1
        s1 == IF signed THEN Tail(s0) ELSE s0
        ip == DigitPrefix(s1)
        s2 == SubSeq(s1, Len(ip) + 1, Len(s1))
        dotted == s2 # <<>> /\ Head(s2) = "."
        fp == IF dotted THEN DigitPrefix(Tail(s2)) ELSE <<>>
        tenths == IF fp = <<>> THEN 0 ELSE DigitValue(Head(fp))
    IN  IF ip = <<>> /\ fp = <<>> THEN NaN
        ELSE sign * (10 * DecimalValue(ip, 0) + tenths)

isNaN(x) == x = NaN

(***************************************************************************)
(* The string a template literal builds from its pieces: Chars(piece) is   *)
(* the piece's characters, IdText(id) the concatenation.                   *)
(***************************************************************************)
Chars(piece) ==
    CASE piece = "zone_" -> <<"z", "o", "n", "e", "_">>
      [] piece = "merged_" -> <<"m", "e", "r", "g", "e", "d", "_">>
      [] piece = "GROEN" -> <<"G", "R", "O", "E", "N">>
      [] piece = "ORANJE" -> <<"O", "R", "A", "N", "J", "E">>
      [] OTHER -> <<piece>>

RECURSIVE IdText(_)
IdText(id) == IF id = <<>> THEN <<>> ELSE Chars(Head(id)) \o IdText(Tail(id))

(***************************************************************************)
(* getDistance: the haversine formula.  Cos2(d) is 2*cos(d degrees) for d  *)
(* a multiple of 60; a16 is 16*a of the source; HaversineKm[a16 + 1] is    *)
(* R * 2 * asin(sqrt(a16 / 16)) with R = 6371, rounded to a kilometre.     *)
(***************************************************************************)
Cos2(deg) == <<2, 1, -1, -2, -1, 1>>[((deg % 360) \div 60) + 1]

HaversineKm ==
    <<0, 3220, 4605, 5706, 6672, 7559, 8398, 9209, 10008, 10806, 11617,
      12457, 13343, 14309, 15411, 16795, 20015>>

\* a variant of getDistance that takes lon2 for the difference of longitudes
getDistanceFromGreenwich(lat1, lon1, lat2, lon2) ==
    IF ~(IsNumber(lat1) /\ IsNumber(lon1) /\ IsNumber(lat2) /\ IsNumber(lon2))
    THEN NaN
    ELSE LET dLat == lat2 - lat1
             dLon == lon2
             a16 == 8 - 4 * Cos2(dLat)
                    + Cos2(lat1) * Cos2(lat2) * (2 - Cos2(dLon))
         IN  HaversineKm[a16 + 1]

getDistance(lat1, lon1, lat2, lon2) ==
    IF ~(IsNumber(lat1) /\ IsNumber(lon1) /\ IsNumber(lat2) /\ IsNumber(lon2))
    THEN NaN
    ELSE LET dLat == lat2 - lat1
             dLon == lon2 - lon1
             a16 == 8 - 4 * Cos2(dLat)
                    + Cos2(lat1) * Cos2(lat2) * (2 - Cos2(dLon))
         IN  HaversineKm[a16 + 1]

(***************************************************************************)
(* getCentroid.  null is <<>>, a centroid is <<[lat, lng]>>.  A JS array   *)
(* is truthy even when empty, so an empty first vertex passes the guard    *)
(* and yields undefined coordinates.                                       *)
(***************************************************************************)
getCentroid(geometry) ==
    LET coords == geometry.coordinates
        geomType == geometry.type
    IN  IF "coordinates" \notin DOMAIN geometry THEN <<>>
        ELSE IF geomType = "Polygon" /\ Len(coords) >= 1 /\ Len(coords[1]) >= 1
        THEN <<[lat |-> At(coords[1][1], 1), lng |-> At(coords[1][1], 0)]>>
        ELSE IF geomType = "MultiPolygon" /\ Len(coords) >= 1
                /\ Len(coords[1]) >= 1 /\ Len(coords[1][1]) >= 1
        THEN <<[lat |-> At(coords[1][1][1], 1), lng |-> At(coords[1][1][1], 0)]>>
        ELSE <<>>


(***************************************************************************)
(* @turf/turf, as far as mergeAreas uses it.  A buffer is the geometry     *)
(* with the radius (in metres) it was grown by; two buffers intersect iff  *)
(* some position of one is within the sum of the radii of some position of *)
(* the other.  turf rejects a geometry holding a position that is not a    *)
(* [lng, lat] pair of numbers by throwing.                                 *)
(***************************************************************************)
RECURSIVE Flatten(_)
Flatten(seqs) ==
    IF seqs = <<>> THEN <<>> ELSE Head(seqs) \o Flatten(Tail(seqs))

\* every position of every ring of a Polygon or MultiPolygon
Positions(geometry) ==
    LET rings == IF geometry.type = "Polygon"
                 THEN geometry.coordinates
                 ELSE Flatten(geometry.coordinates)
        all == Flatten(rings)
    IN  {all[k] : k \in 1..Len(all)}

TurfThrows(geometry) ==
    \/ Positions(geometry) = {}
    \/ \E p \in Positions(geometry) : Len(p) < 2

TurfBuffer(geometry, radiusMeters) ==
    [geometry |-> geometry, radius |-> radiusMeters]

booleanIntersects(buffer1, buffer2) ==
    \E p \in Positions(buffer1.geometry), q \in Positions(buffer2.geometry) :
        1000 * getDistance(p[2], p[1], q[2], q[1])
            <= buffer1.radius + buffer2.radius

\* lines 227-262: the body of the try block, "throw" when turf throws
ComparePair(geometry1, geometry2) ==
    IF TurfThrows(geometry1) \/ TurfThrows(geometry2) THEN "throw"
    ELSE IF booleanIntersects(
                TurfBuffer(geometry1, MERGE_DISTANCE_METERS \div 2),
                TurfBuffer(geometry2, MERGE_DISTANCE_METERS \div 2))
    THEN "merge"
    ELSE "apart"

(***************************************************************************)
(* Classification (the loop over features).  A null element of the         *)
(* features array makes feature.properties throw a TypeError.              *)
(***************************************************************************)
IsNullFeature(feature) == "null" \in DOMAIN feature

CodeOf(feature) ==
    IF "properties" \in DOMAIN feature /\ "CODE" \in DOMAIN feature.properties
    THEN feature.properties.CODE
    ELSE "undefined"

\* a variant of ParsedArea that keeps a parsed area of zero
ParsedAreaNonNegative(properties) ==
    IF "OPPERVLAKTE" \in DOMAIN properties /\ properties.OPPERVLAKTE # <<>>
    THEN LET parsedArea == parseFloat(properties.OPPERVLAKTE)
         IN  IF ~isNaN(parsedArea) /\ parsedArea >= 0 THEN parsedArea
             ELSE Undefined
    ELSE Undefined

\* lines 165-174: area, Undefined when OPPERVLAKTE is falsy or unusable
ParsedArea(properties) ==
    IF "OPPERVLAKTE" \in DOMAIN properties /\ properties.OPPERVLAKTE # <<>>
    THEN LET parsedArea == parseFloat(properties.OPPERVLAKTE)
         IN  IF ~isNaN(parsedArea) /\ parsedArea > 0 THEN parsedArea
             ELSE Undefined
    ELSE Undefined

\* a variant of ClassifyFeature without the test of CODE
ClassifyFeatureAnyCode(feature, i) ==
    LET none == [area |-> <<>>, point |-> <<>>]
    IN  IF "properties" \in DOMAIN feature /\ "geometry" \in DOMAIN feature
        THEN LET tempId == <<DEFAULT_ZONE_ID_PREFIX, NumberToString(i)>>
                 area == ParsedArea(feature.properties)
                 centroid == getCentroid(feature.geometry)
             IN  IF centroid = <<>> THEN none
                 ELSE LET baseZoneData ==
                              [type |-> "Feature",
                               id |-> tempId,
                               properties |-> feature.properties,
                               geometry |-> feature.geometry,
                               centroid |-> centroid[1]]
                      IN  IF area # Undefined
                          THEN [area |-> <<baseZoneData @@
                                    [zoneType |-> "area", area |-> area]>>,
                                point |-> <<>>]
                          ELSE [area |-> <<>>,
                                point |-> <<baseZoneData @@
                                    [zoneType |-> "point"]>>]
        ELSE none

\* a variant of ClassifyFeature that numbers the ids on from the zones
\* published so far
ClassifyFeatureCounting(feature, i) ==
    LET code == CodeOf(feature)
        none == [area |-> <<>>, point |-> <<>>]
    IN  IF (code = "GROEN" \/ code = "ORANJE") /\ "geometry" \in DOMAIN feature
        THEN LET tempId == <<DEFAULT_ZONE_ID_PREFIX,
                             NumberToString(i + Len(processedZones))>>
                 area == ParsedArea(feature.properties)
                 centroid == getCentroid(feature.geometry)
             IN  IF centroid = <<>> THEN none
                 ELSE LET baseZoneData ==
                              [type |-> "Feature",
                               id |-> tempId,
                               properties |-> feature.properties,
                               geometry |-> feature.geometry,
                               centroid |-> centroid[1]]
                      IN  IF area # Undefined
                          THEN [area |-> <<baseZoneData @@
                                    [zoneType |-> "area", area |-> area]>>,
                                point |-> <<>>]
                          ELSE [area |-> <<>>,
                                point |-> <<baseZoneData @@
                                    [zoneType |-> "point"]>>]
        ELSE none

\* lines 159-193: the zones feature i (0-based) adds: [area, point]
ClassifyFeature(feature, i) ==
    LET code == CodeOf(feature)
        none == [area |-> <<>>, point |-> <<>>]
    IN  IF (code = "GROEN" \/ code = "ORANJE") /\ "geometry" \in DOMAIN feature
        THEN LET tempId == <<DEFAULT_ZONE_ID_PREFIX, NumberToString(i)>>
                 area == ParsedArea(feature.properties)
                 centroid == getCentroid(feature.geometry)
             IN  IF centroid = <<>> THEN none
                 ELSE LET baseZoneData ==
                              [type |-> "Feature",
                               id |-> tempId,
                               properties |-> feature.properties,
                               geometry |-> feature.geometry,
                               centroid |-> centroid[1]]
                      IN  IF area # Undefined
                          THEN [area |-> <<baseZoneData @@
                                    [zoneType |-> "area", area |-> area]>>,
                                point |-> <<>>]
                          ELSE [area |-> <<>>,
                                point |-> <<baseZoneData @@
                                    [zoneType |-> "point"]>>]
        ELSE none

\* a variant of ClassifyFrom that puts a new zone at the head of its list
RECURSIVE ClassifyFromPrepending(_, _, _, _)
ClassifyFromPrepending(features, i, areaZones, pointZones) ==
    IF i >= Len(features)
    THEN [threw |-> FALSE, area |-> areaZones, point |-> pointZones]
    ELSE IF IsNullFeature(features[i + 1])
    THEN [threw |-> TRUE, area |-> areaZones, point |-> pointZones]
    ELSE LET z == ClassifyFeature(features[i + 1], i)
         IN  ClassifyFromPrepending(features, i + 1,
                          z.area \o areaZones, z.point \o pointZones)

\* lines 152-195: threw is TRUE when the loop ended in a TypeError
RECURSIVE ClassifyFrom(_, _, _, _)
ClassifyFrom(features, i, areaZones, pointZones) ==
    IF i >= Len(features)
    THEN [threw |-> FALSE, area |-> areaZones, point |-> pointZones]
    ELSE IF IsNullFeature(features[i + 1])
    THEN [threw |-> TRUE, area |-> areaZones, point |-> pointZones]
    ELSE LET z == ClassifyFeature(features[i + 1], i)
         IN  ClassifyFrom(features, i + 1,
                          areaZones \o z.area, pointZones \o z.point)

Classify(doc) ==
    IF "features" \in DOMAIN doc
    THEN ClassifyFrom(doc.features, 0, <<>>, <<>>)
    ELSE [threw |-> FALSE, area |-> <<>>, point |-> <<>>]


(***************************************************************************)
(* mergeAreas.  Indices are 1-based here and 0-based in the ids.           *)
(***************************************************************************)
\* a variant of FilterByCode that keeps the zones of every category
FilterNone(areas, codeToMerge) == areas

\* areas.filter(z => z.properties.CODE === codeToMerge)
RECURSIVE FilterByCode(_, _)
FilterByCode(areas, codeToMerge) ==
    IF areas = <<>> THEN <<>>
    ELSE (IF Head(areas).properties.CODE = codeToMerge
          THEN <<Head(areas)>> ELSE <<>>)
         \o FilterByCode(Tail(areas), codeToMerge)

\* a variant of OrZero that takes every area as 0
OrZeroIgnoreArea(zone) == 0

\* area || 0
OrZero(zone) == IF "area" \in DOMAIN zone THEN zone.area ELSE 0

\* a variant of ScanCandidates that ends the scan at the first candidate it
\* claims
RECURSIVE ScanCandidatesFirstOnly(_, _, _, _)
ScanCandidatesFirstOnly(areasToMerge, i, j, st) ==
    IF j > Len(areasToMerge) THEN st
    ELSE IF j \in st.processedIndices
    THEN ScanCandidatesFirstOnly(areasToMerge, i, j + 1, st)
    ELSE IF ComparePair(st.currentMergedGeometry, areasToMerge[j].geometry)
            = "merge"
    THEN [st EXCEPT !.currentAreaIndices = Append(@, j),
                    !.processedIndices = @ \cup {j},
                    !.currentMergedArea.area =
                        (IF "area" \in DOMAIN st.currentMergedArea
                         THEN st.currentMergedArea.area ELSE 0)
                        + (IF "area" \in DOMAIN areasToMerge[j]
                           THEN areasToMerge[j].area ELSE 0)]
    ELSE ScanCandidatesFirstOnly(areasToMerge, i, j + 1, st)

\* a variant of ScanCandidates without the try/catch: a throw of turf ends
\* the scan of the anchor
RECURSIVE ScanCandidatesAbortOnThrow(_, _, _, _)
ScanCandidatesAbortOnThrow(areasToMerge, i, j, st) ==
    IF j > Len(areasToMerge) THEN st
    ELSE IF j \in st.processedIndices
    THEN ScanCandidatesAbortOnThrow(areasToMerge, i, j + 1, st)
    ELSE IF ComparePair(st.currentMergedGeometry, areasToMerge[j].geometry)
            = "merge"
    THEN ScanCandidatesAbortOnThrow(areasToMerge, i, j + 1,
            [st EXCEPT !.currentAreaIndices = Append(@, j),
                       !.processedIndices = @ \cup {j},
                       !.currentMergedArea.area =
                           (IF "area" \in DOMAIN st.currentMergedArea
                            THEN st.currentMergedArea.area ELSE 0)
                           + (IF "area" \in DOMAIN areasToMerge[j]
                              THEN areasToMerge[j].area ELSE 0)])
    ELSE IF ComparePair(st.currentMergedGeometry, areasToMerge[j].geometry)
            = "throw"
    THEN st
    ELSE ScanCandidatesAbortOnThrow(areasToMerge, i, j + 1, st)

\* the polygons of a Polygon or MultiPolygon
PolygonsOf(geometry) ==
    IF geometry.type = "Polygon"
    THEN <<geometry.coordinates>> ELSE geometry.coordinates

\* a variant of ScanCandidates that extends the running merged geometry by
\* the geometry of every zone it claims
RECURSIVE ScanCandidatesUnioning(_, _, _, _)
ScanCandidatesUnioning(areasToMerge, i, j, st) ==
    IF j > Len(areasToMerge) THEN st
    ELSE IF j \in st.processedIndices
    THEN ScanCandidatesUnioning(areasToMerge, i, j + 1, st)
    ELSE IF ComparePair(st.currentMergedGeometry, areasToMerge[j].geometry)
            = "merge"
    THEN ScanCandidatesUnioning(areasToMerge, i, j + 1,
            [st EXCEPT !.currentAreaIndices = Append(@, j),
                       !.processedIndices = @ \cup {j},
                       !.currentMergedGeometry =
                           [type |-> "MultiPolygon",
                            coordinates |->
                                PolygonsOf(st.currentMergedGeometry)
                                \o PolygonsOf(areasToMerge[j].geometry)],
                       !.currentMergedArea.area =
                           OrZero(st.currentMergedArea)
                           + OrZero(areasToMerge[j])])
    ELSE ScanCandidatesUnioning(areasToMerge, i, j + 1, st)

\* lines 224-263: the scan of the candidates j, j+1, ... for anchor i
RECURSIVE ScanCandidates(_, _, _, _)
ScanCandidates(areasToMerge, i, j, st) ==
    IF j > Len(areasToMerge) THEN st
    ELSE IF j \in st.processedIndices
    THEN ScanCandidates(areasToMerge, i, j + 1, st)
    ELSE IF ComparePair(st.currentMergedGeometry, areasToMerge[j].geometry)
            = "merge"
    THEN ScanCandidates(areasToMerge, i, j + 1,
            [st EXCEPT !.currentAreaIndices = Append(@, j),
                       !.processedIndices = @ \cup {j},
                       !.currentMergedArea.area =
                           OrZero(st.currentMergedArea)
                           + OrZero(areasToMerge[j])])
    ELSE ScanCandidates(areasToMerge, i, j + 1, st)

\* a variant of EmitGroup whose merged id leaves the category out
EmitGroupNoCategory(st, codeToMerge, i) ==
    IF Len(st.currentAreaIndices) > 1
    THEN [st.currentMergedArea EXCEPT
             !.id = <<MERGED_ZONE_ID_PREFIX, "_", NumberToString(i - 1)>>]
    ELSE st.currentMergedArea

\* a variant of EmitGroup that gives a group of one member a merged id too
EmitGroupAlwaysMerged(st, codeToMerge, i) ==
    [st.currentMergedArea EXCEPT
        !.id = <<MERGED_ZONE_ID_PREFIX, codeToMerge, "_",
                 NumberToString(i - 1)>>]

\* lines 266-290: the zone a finished group is emitted as
EmitGroup(st, codeToMerge, i) ==
    IF Len(st.currentAreaIndices) > 1
    THEN LET centroid == getCentroid(st.currentMergedGeometry)
             mergedId == <<MERGED_ZONE_ID_PREFIX, codeToMerge, "_",
                           NumberToString(i - 1)>>
         IN  IF centroid # <<>>
             THEN [st.currentMergedArea EXCEPT
                       !.id = mergedId,
                       !.geometry = st.currentMergedGeometry,
                       !.centroid = centroid[1]]
             ELSE [st.currentMergedArea EXCEPT !.id = mergedId]
    ELSE st.currentMergedArea

\* the ids of the zones at currentAreaIndices, anchor first
MemberIds(areasToMerge, currentAreaIndices) ==
    [k \in 1..Len(currentAreaIndices) |->
        areasToMerge[currentAreaIndices[k]].id]

\* a variant of MergeFrom in which a claimed zone is an anchor again and an
\* anchor scans the claimed zones again
RECURSIVE MergeFromReconsidering(_, _, _, _)
MergeFromReconsidering(areasToMerge, codeToMerge, i, acc) ==
    IF i > Len(areasToMerge) THEN acc
    ELSE LET st == ScanCandidates(areasToMerge, i, i + 1,
                      [currentAreaIndices |-> <<i>>,
                       currentMergedArea |-> areasToMerge[i],
                       currentMergedGeometry |-> areasToMerge[i].geometry,
                       processedIndices |-> {i}])
         IN  MergeFromReconsidering(areasToMerge, codeToMerge, i + 1,
                [mergedResult |-> Append(acc.mergedResult,
                                         EmitGroup(st, codeToMerge, i)),
                 groups |-> Append(acc.groups,
                                   MemberIds(areasToMerge,
                                             st.currentAreaIndices)),
                 processedIndices |-> st.processedIndices])

\* lines 212-291: the loop over the anchors i, i+1, ...
RECURSIVE MergeFrom(_, _, _, _)
MergeFrom(areasToMerge, codeToMerge, i, acc) ==
    IF i > Len(areasToMerge) THEN acc
    ELSE IF i \in acc.processedIndices
    THEN MergeFrom(areasToMerge, codeToMerge, i + 1, acc)
    ELSE LET st == ScanCandidates(areasToMerge, i, i + 1,
                      [currentAreaIndices |-> <<i>>,
                       currentMergedArea |-> areasToMerge[i],
                       currentMergedGeometry |-> areasToMerge[i].geometry,
                       processedIndices |-> acc.processedIndices \cup {i}])
         IN  MergeFrom(areasToMerge, codeToMerge, i + 1,
                [mergedResult |-> Append(acc.mergedResult,
                                         EmitGroup(st, codeToMerge, i)),
                 groups |-> Append(acc.groups,
                                   MemberIds(areasToMerge,
                                             st.currentAreaIndices)),
                 processedIndices |-> st.processedIndices])

\* the run of mergeAreas: its result and the members of every group
MergeRun(areas, codeToMerge) ==
    LET areasToMerge == FilterByCode(areas, codeToMerge)
    IN  IF Len(areasToMerge) < 2
        THEN [mergedResult |-> areasToMerge,
              groups |-> [k \in 1..Len(areasToMerge) |->
                             <<areasToMerge[k].id>>],
              processedIndices |-> {}]
        ELSE MergeFrom(areasToMerge, codeToMerge, 1,
                [mergedResult |-> <<>>, groups |-> <<>>,
                 processedIndices |-> {}])

mergeAreas(areas, codeToMerge) == MergeRun(areas, codeToMerge).mergedResult

(***************************************************************************)
(* The nearest-zones effect's computation.                                 *)
(*                                                                         *)
(* Array.prototype.sort with the comparator (a, b) => a.distance -         *)
(* b.distance.  A NaN result counts as +0.  For a consistent comparator    *)
(* the sort is stable (ECMAScript 2019); when some distance is NaN the     *)
(* comparator is not consistent and the order is the engine's: the model   *)
(* draws it from two engines' algorithms for short arrays, V8's (the first *)
(* run is taken as found, or reversed when strictly descending, and the    *)
(* rest is placed by binary insertion) and a straight insertion sort.      *)
(***************************************************************************)
\* a variant of WithDistance that rebuilds the zone from its id, its centroid
\* and the distance
WithDistanceRebuilt(zone, coords) ==
    [id |-> zone.id, centroid |-> zone.centroid,
     distance |-> getDistance(coords.latitude, coords.longitude,
                              zone.centroid.lat, zone.centroid.lng)]

\* { ...zone, distance }, and zone.distance = distance
WithDistance(zone, coords) ==
    LET distance == getDistance(coords.latitude, coords.longitude,
                                zone.centroid.lat, zone.centroid.lng)
    IN  IF "distance" \in DOMAIN zone
        THEN [zone EXCEPT !.distance = distance]
        ELSE zone @@ [distance |-> distance]

\* (a, b) => a.distance - b.distance, NaN taken as +0 by the sort
CompareDistance(a, b) ==
    IF IsNumber(a.distance) /\ IsNumber(b.distance)
    THEN a.distance - b.distance
    ELSE 0

RECURSIVE InsertSorted(_, _)
InsertSorted(sorted, z) ==
    IF sorted # <<>> /\ CompareDistance(z, sorted[Len(sorted)]) < 0
    THEN Append(InsertSorted(SubSeq(sorted, 1, Len(sorted) - 1), z),
                sorted[Len(sorted)])
    ELSE Append(sorted, z)

RECURSIVE InsertionSort(_)
InsertionSort(zones) ==
    IF zones = <<>> THEN <<>>
    ELSE InsertSorted(InsertionSort(SubSeq(zones, 1, Len(zones) - 1)),
                      zones[Len(zones)])

Reverse(array) == [k \in 1..Len(array) |-> array[Len(array) + 1 - k]]

\* the length of the run that starts the array (at least 2 elements)
RECURSIVE RunLength(_, _, _)
RunLength(array, isDescending, idx) ==
    IF idx > Len(array) THEN idx - 1
    ELSE LET order == CompareDistance(array[idx], array[idx - 1])
         IN  IF (isDescending /\ order >= 0) \/ (~isDescending /\ order < 0)
             THEN idx - 1
             ELSE RunLength(array, isDescending, idx + 1)

\* where the pivot goes in array[left .. right-1], by binary search
RECURSIVE InsertionPoint(_, _, _, _)
InsertionPoint(array, pivot, left, right) ==
    IF left >= right THEN left
    ELSE LET mid == left + ((right - left) \div 2)
         IN  IF CompareDistance(pivot, array[mid]) < 0
             THEN InsertionPoint(array, pivot, left, mid)
             ELSE InsertionPoint(array, pivot, mid + 1, right)

RECURSIVE BinaryInsertionFrom(_, _)
BinaryInsertionFrom(array, start) ==
    IF start > Len(array) THEN array
    ELSE LET pivot == array[start]
             at == InsertionPoint(array, pivot, 1, start)
         IN  BinaryInsertionFrom(
                 SubSeq(array, 1, at - 1) \o <<pivot>>
                 \o SubSeq(array, at, start - 1)
                 \o SubSeq(array, start + 1, Len(array)),
                 start + 1)

TimSort(zones) ==
    IF Len(zones) < 2 THEN zones
    ELSE LET isDescending == CompareDistance(zones[2], zones[1]) < 0
             run == RunLength(zones, isDescending, 3)
             ascending ==
                 IF isDescending
                 THEN Reverse(SubSeq(zones, 1, run))
                      \o SubSeq(zones, run + 1, Len(zones))
                 ELSE zones
         IN  BinaryInsertionFrom(ascending, run + 1)

\* zonesWithDistance.sort(...): the orders an engine can leave
SortOutcomes(zones) == {TimSort(zones), InsertionSort(zones)}

\* array.slice(0, n)
Slice(array, n) == SubSeq(array, 1, IF n < Len(array) THEN n ELSE Len(array))

\* lines 333-343: the lists setNearestZones can be given
NearestOutcomes(zones, coords) ==
    LET zonesWithDistance ==
            [k \in 1..Len(zones) |-> WithDistance(zones[k], coords)]
    IN  {Slice(sorted, MAX_NEAREST) : sorted \in SortOutcomes(zonesWithDistance)}


(***************************************************************************)
(* The inputs of the model.                                                *)
(***************************************************************************)
Vertex(lng, lat) == <<lng, lat>>

RingA == <<Vertex(0, 0), Vertex(60, 0)>>
RingB == <<Vertex(60, 0), Vertex(120, 0)>>
RingC == <<Vertex(120, 0), Vertex(180, 0)>>

Polygon(ring) == [type |-> "Polygon", coordinates |-> <<ring>>]
MultiPolygon(ring) == [type |-> "MultiPolygon", coordinates |-> << <<ring>> >>]

PolyA == Polygon(RingA)
PolyB == Polygon(RingB)
PolyC == Polygon(RingC)
MultiA == MultiPolygon(RingA)
\* a later position of the ring is not a pair: a centroid, but turf throws
BadTail == Polygon(<<Vertex(0, 0), <<>>>>)
\* the first position of the ring is an empty array
BadHead == Polygon(<< <<>>, Vertex(60, 0)>>)
EmptyRing == Polygon(<<>>)
EmptyCoords == [type |-> "Polygon", coordinates |-> <<>>]
NoCoords == [type |-> "Polygon"]
LineString == [type |-> "LineString", coordinates |-> <<RingA>>]

Feature(code, oppervlakte, geometry) ==
    [properties |-> [CODE |-> code, OPPERVLAKTE |-> oppervlakte],
     geometry |-> geometry]
\* OPPERVLAKTE is null
FeatureNoArea(code, geometry) ==
    [properties |-> [CODE |-> code], geometry |-> geometry]
\* geometry is null
FeatureNoGeometry(code, oppervlakte) ==
    [properties |-> [CODE |-> code, OPPERVLAKTE |-> oppervlakte]]
NullFeature == [null |-> TRUE]
NoPropertiesFeature == [geometry |-> PolyA]

Codes == {"GROEN", "ORANJE", "ROOD"}

ClassifyFeatures ==
    {Feature(c, a, g) :
        c \in Codes, a \in {<<"1", "2">>, <<"0">>, <<"a", "b">>},
        g \in {PolyA, EmptyRing}}
    \cup {FeatureNoArea(c, PolyB) : c \in Codes}
    \cup {FeatureNoGeometry(c, <<"1", "2">>) : c \in Codes}
    \cup {Feature("GROEN", a, PolyB) :
            a \in {<<>>, <<"-", "5">>, <<"3", ".", "5">>, <<" ", "7">>,
                   <<"8", "x">>, <<".", "5">>, <<"0", ".", "0">>}}
    \cup {Feature("ORANJE", <<"7">>, g) :
            g \in {MultiA, BadHead, BadTail, EmptyCoords, NoCoords, LineString}}
    \cup {NullFeature, NoPropertiesFeature}

MergeFeatures ==
    {Feature("GROEN", <<"1", "2">>, PolyA),
     Feature("GROEN", <<"3", ".", "5">>, PolyB),
     Feature("GROEN", <<"7">>, PolyC),
     Feature("GROEN", <<"2">>, BadTail),
     Feature("GROEN", <<"0", ".", "5">>, MultiA),
     Feature("ORANJE", <<"1", "2">>, PolyA),
     Feature("ORANJE", <<"3", ".", "5">>, PolyB),
     FeatureNoArea("GROEN", PolyA),
     FeatureNoArea("ORANJE", PolyB)}

RankFeatures ==
    {FeatureNoArea("GROEN", PolyA),
     FeatureNoArea("ORANJE", PolyC),
     FeatureNoArea("GROEN", BadHead)}

\* two GROEN areas that merge and an ORANJE point
ScreenFeatures ==
    {Feature("GROEN", <<"1", "2">>, PolyA),
     Feature("GROEN", <<"3", ".", "5">>, PolyB),
     FeatureNoArea("ORANJE", PolyC)}

DocumentsOf(features, n) ==
    {[type |-> "FeatureCollection", features |-> fs] :
        fs \in UNION {[1..k -> features] : k \in 0..n}}

\* documents that are no FeatureCollection: no features member
MalformedDocuments == {[type |-> "FeatureCollection"], [name |-> "x"]}

\* a features array holding null
NullFeatureDocuments ==
    {[type |-> "FeatureCollection", features |-> <<NullFeature>>],
     [type |-> "FeatureCollection",
      features |-> <<FeatureNoArea("GROEN", PolyA), NullFeature>>]}

UserPositions ==
    {[latitude |-> 0, longitude |-> 60], [latitude |-> 0, longitude |-> 0]}

\* the features of the unfiltered file: every code, a code that differs
\* from GROEN in case only, no CODE, no properties, null
OriginalFeatures ==
    {Feature(c, <<"1", "2">>, PolyA) : c \in Codes \cup {"groen"}}
    \cup {Feature("ORANJE", <<"7">>, PolyB),
          [properties |-> [OPPERVLAKTE |-> <<"7">>], geometry |-> PolyA],
          NoPropertiesFeature, NullFeature}

\* the unfiltered file, with and without further top-level members
OriginalDocuments ==
    {[type |-> "FeatureCollection", features |-> fs] :
        fs \in UNION {[1..k -> OriginalFeatures] : k \in 0..MaxFilterFeatures}}
    \cup {[type |-> "FeatureCollection", name |-> "hondenkaart",
           crs |-> [type |-> "name"], features |-> fs] :
        fs \in UNION {[1..k -> OriginalFeatures] : k \in 0..MaxFilterFeatures}}
    \cup MalformedDocuments

\* the points of the grid
Latitudes == {-60, 0, 60}
Longitudes == {60 * k : k \in -MaxLonSteps..MaxLonSteps}


(***************************************************************************)
(* The state after construction (the useState initial values), before the  *)
(* initialization effect has run.                                          *)
(***************************************************************************)
ScreenConstructed(documents) ==
    /\ document \in documents
    /\ pc = "mount"
    /\ initialAreaZones = <<>>
    /\ initialPointZones = <<>>
    /\ mergeGroups = [GROEN |-> <<>>, ORANJE |-> <<>>]
    /\ processedZones = <<>>
    /\ loading = TRUE
    /\ error = ""
    /\ locationStatus = "Initializing..."
    /\ userLocation = <<>>
    /\ nearestZones = <<>>
    /\ nearestPending = FALSE
    /\ selectedZone = <<>>
    /\ selectedPending = FALSE
    /\ positionObtained = FALSE
    /\ isMounted = TRUE
    /\ pendingRequests = 0
    /\ selectedZoneCopies = 0

\* the filter script is not run
ScriptOff ==
    /\ originalData = [type |-> "FeatureCollection", features |-> <<>>]
    /\ scriptPc = "off"
    /\ filteredFile = <<>>

\* no lone call of getDistance is pending: the one at the origin returned
NoDistanceCall ==
    /\ distanceCall = [lat1 |-> 0, lon1 |-> 0, lat2 |-> 0, lon2 |-> 0]
    /\ distanceResult = <<0>>

InitWith(documents) ==
    /\ ScreenConstructed(documents)
    /\ ScriptOff
    /\ NoDistanceCall

Init ==
    InitWith(DocumentsOf(RankFeatures, MaxRankFeatures)
             \cup MalformedDocuments \cup NullFeatureDocuments)

InitClassify ==
    InitWith(DocumentsOf(ClassifyFeatures, MaxClassifyFeatures)
             \cup MalformedDocuments)

InitMerge == InitWith(DocumentsOf(MergeFeatures, MaxMergeFeatures))

InitScreen == InitWith(DocumentsOf(ScreenFeatures, MaxScreenFeatures))

InitRecompute == InitWith(DocumentsOf(RankFeatures, MaxRecomputeFeatures))

\* the filter script before it runs, on the unfiltered documents
InitFilter ==
    /\ ScreenConstructed({[type |-> "FeatureCollection", features |-> <<>>]})
    /\ originalData \in OriginalDocuments
    /\ scriptPc = "start"
    /\ filteredFile = <<>>
    /\ NoDistanceCall

\* a call of getDistance before it is evaluated, on the grid of points
InitDistance ==
    /\ ScreenConstructed({[type |-> "FeatureCollection", features |-> <<>>]})
    /\ ScriptOff
    /\ distanceCall \in [lat1 : Latitudes, lon1 : Longitudes,
                          lat2 : Latitudes, lon2 : Longitudes]
    /\ distanceResult = <<>>

(***************************************************************************)
(* Lines 151-305 as a function of the document: classification, the two    *)
(* merge runs and the combination.                                         *)
(***************************************************************************)
ProcessingPass(doc) ==
    LET classified == Classify(doc)
    IN  mergeAreas(classified.area, "GROEN")
        \o mergeAreas(classified.area, "ORANJE")
        \o classified.point

\* a variant of InitializeApp that publishes the list before the POINT
\* zones are added to it
InitializeAppAreasFirst ==
    /\ pc = "mount"
    /\ LET classified == Classify(document)
           green == MergeRun(classified.area, "GROEN")
           orange == MergeRun(classified.area, "ORANJE")
           allProcessedZones ==
               green.mergedResult \o orange.mergedResult
       IN  IF classified.threw
           THEN /\ error' = "TypeError"
                /\ loading' = FALSE
                /\ locationStatus' = "Requesting..."
                /\ pc' = "failed"
                /\ UNCHANGED <<initialAreaZones, initialPointZones,
                               mergeGroups, processedZones, nearestPending,
                               pendingRequests>>
           ELSE /\ initialAreaZones' = classified.area
                /\ initialPointZones' = classified.point
                /\ mergeGroups' = [GROEN |-> green.groups,
                                   ORANJE |-> orange.groups]
                /\ processedZones' = allProcessedZones
                /\ nearestPending' = TRUE
                /\ locationStatus' = "Requesting..."
                /\ error' = ""
                /\ pc' = "awaitPermission"
                /\ pendingRequests' = pendingRequests + 1
                /\ UNCHANGED loading
    /\ UNCHANGED <<document, userLocation, nearestZones, selectedZone,
                   selectedPending, positionObtained, isMounted,
                   scriptVars, distanceVars,
                   selectedZoneCopies>>

(***************************************************************************)
(* initializeApp, from the mount up to its first await (the permission     *)
(* request inside refreshUserLocation(true)), or up to the end of its      *)
(* catch/finally when the classification throws.                           *)
(***************************************************************************)
InitializeApp ==
    /\ pc = "mount"
    /\ LET classified == Classify(document)
           green == MergeRun(classified.area, "GROEN")
           orange == MergeRun(classified.area, "ORANJE")
           allProcessedZones ==
               green.mergedResult \o orange.mergedResult \o classified.point
       IN  IF classified.threw
           THEN /\ error' = "TypeError"
                /\ loading' = FALSE
                /\ locationStatus' = "Requesting..."
                /\ pc' = "failed"
                /\ UNCHANGED <<initialAreaZones, initialPointZones,
                               mergeGroups, processedZones, nearestPending,
                               pendingRequests>>
           ELSE /\ initialAreaZones' = classified.area
                /\ initialPointZones' = classified.point
                /\ mergeGroups' = [GROEN |-> green.groups,
                                   ORANJE |-> orange.groups]
                /\ processedZones' = allProcessedZones
                /\ nearestPending' = TRUE
                /\ locationStatus' = "Requesting..."
                /\ error' = ""
                /\ pc' = "awaitPermission"
                /\ pendingRequests' = pendingRequests + 1
                /\ UNCHANGED loading
    /\ UNCHANGED <<document, userLocation, nearestZones, selectedZone,
                   selectedPending, positionObtained, isMounted,
                   scriptVars, distanceVars,
                   selectedZoneCopies>>

(***************************************************************************)
(* refreshUserLocation: its continuations after the two awaits, and the    *)
(* press of the "Refresh Location" button.  When the call is the one       *)
(* initializeApp awaits, its return runs the finally block                 *)
(* (setLoading(false)); after a refresh loading is FALSE already.          *)
(***************************************************************************)
\* setUserLocation(value): the two effects that depend on userLocation are
\* scheduled when the state changes (a location is a new object every time)
SetUserLocation(value) ==
    /\ userLocation' = value
    /\ nearestPending' =
           (nearestPending
            \/ (isMounted /\ (value # <<>> \/ userLocation # <<>>)))
    /\ selectedPending' =
           (selectedPending
            \/ (isMounted /\ (value # <<>> \/ userLocation # <<>>)))
    /\ positionObtained' = (positionObtained \/ value # <<>>)

\* React runs the effects of a render before it processes the next state
\* update, and an effect reads the values of the render that scheduled it:
\* no handler or continuation comes between a change of userLocation or
\* processedZones and the nearest-zones effect run for it
EffectsFlushed == ~nearestPending

PermissionDenied ==
    /\ pc = "awaitPermission"
    /\ EffectsFlushed
    /\ locationStatus' = "Permission denied"
    /\ SetUserLocation(<<>>)
    /\ loading' = (IF isMounted THEN FALSE ELSE loading)
    /\ pendingRequests' = pendingRequests - 1
    /\ pc' = "idle"
    /\ UNCHANGED <<document, initialAreaZones, initialPointZones, mergeGroups,
                   processedZones, error, nearestZones, selectedZone,
                   isMounted, scriptVars, distanceVars,
                   selectedZoneCopies>>

PermissionGranted ==
    /\ pc = "awaitPermission"
    /\ EffectsFlushed
    /\ locationStatus' = "Fetching..."
    /\ pc' = "awaitPosition"
    /\ UNCHANGED <<document, initialAreaZones, initialPointZones, mergeGroups,
                   processedZones, loading, error, userLocation, nearestZones,
                   nearestPending, selectedZone, selectedPending,
                   positionObtained, isMounted, pendingRequests,
                   scriptVars, distanceVars,
                   selectedZoneCopies>>

PositionFetched ==
    /\ pc = "awaitPosition"
    /\ EffectsFlushed
    /\ \E coords \in UserPositions : SetUserLocation(<<coords>>)
    /\ locationStatus' = "Granted"
    /\ loading' = (IF isMounted THEN FALSE ELSE loading)
    /\ pendingRequests' = pendingRequests - 1
    /\ pc' = "idle"
    /\ UNCHANGED <<document, initialAreaZones, initialPointZones, mergeGroups,
                   processedZones, error, nearestZones, selectedZone,
                   isMounted, scriptVars, distanceVars,
                   selectedZoneCopies>>

\* a variant of LocationError with the setError call of line 137
LocationErrorFatal ==
    /\ pc \in {"awaitPermission", "awaitPosition"}
    /\ EffectsFlushed
    /\ locationStatus' = "Error getting location"
    /\ SetUserLocation(<<>>)
    /\ loading' = (IF isMounted THEN FALSE ELSE loading)
    /\ pendingRequests' = pendingRequests - 1
    /\ error' = "Could not fetch location."
    /\ pc' = "idle"
    /\ UNCHANGED <<document, initialAreaZones, initialPointZones, mergeGroups,
                   processedZones, nearestZones, selectedZone,
                   isMounted, scriptVars, distanceVars,
                   selectedZoneCopies>>

\* either await rejects
LocationError ==
    /\ pc \in {"awaitPermission", "awaitPosition"}
    /\ EffectsFlushed
    /\ locationStatus' = "Error getting location"
    /\ SetUserLocation(<<>>)
    /\ loading' = (IF isMounted THEN FALSE ELSE loading)
    /\ pendingRequests' = pendingRequests - 1
    /\ pc' = "idle"
    /\ UNCHANGED <<document, initialAreaZones, initialPointZones, mergeGroups,
                   processedZones, error, nearestZones, selectedZone,
                   isMounted, scriptVars, distanceVars,
                   selectedZoneCopies>>

\* a variant of RefreshPressed whose button is never disabled
RefreshPressedNeverDisabled ==
    /\ isMounted
    /\ ~loading
    /\ error = ""
    /\ EffectsFlushed
    /\ locationStatus' = "Refreshing..."
    /\ error' = ""
    /\ pc' = "awaitPermission"
    /\ pendingRequests' = pendingRequests + 1
    /\ UNCHANGED <<document, initialAreaZones, initialPointZones, mergeGroups,
                   processedZones, loading, userLocation, nearestZones,
                   nearestPending, selectedZone, selectedPending,
                   positionObtained, isMounted, scriptVars, distanceVars,
                   selectedZoneCopies>>

\* the button is rendered when neither loading nor error is set
RefreshPressed ==
    /\ isMounted
    /\ ~loading
    /\ error = ""
    /\ EffectsFlushed
    /\ locationStatus \notin {"Fetching...", "Refreshing..."}
    /\ locationStatus' = "Refreshing..."
    /\ error' = ""
    /\ pc' = "awaitPermission"
    /\ pendingRequests' = pendingRequests + 1
    /\ UNCHANGED <<document, initialAreaZones, initialPointZones, mergeGroups,
                   processedZones, loading, userLocation, nearestZones,
                   nearestPending, selectedZone, selectedPending,
                   positionObtained, isMounted, scriptVars, distanceVars,
                   selectedZoneCopies>>

(***************************************************************************)
(* The nearest-zones effect, run after a render in which userLocation or   *)
(* processedZones changed.                                                 *)
(***************************************************************************)
NearestEffect ==
    /\ isMounted
    /\ nearestPending
    /\ nearestPending' = FALSE
    /\ IF userLocation # <<>> /\ Len(processedZones) > 0
       THEN nearestZones' \in NearestOutcomes(processedZones, userLocation[1])
       ELSE UNCHANGED nearestZones
    /\ UNCHANGED <<document, pc, initialAreaZones, initialPointZones,
                   mergeGroups, processedZones, loading, error,
                   locationStatus, userLocation, selectedZone,
                   selectedPending, positionObtained, isMounted,
                   pendingRequests, scriptVars, distanceVars,
                   selectedZoneCopies>>

(***************************************************************************)
(* The selected-zone effect, run after a render in which userLocation or   *)
(* selectedZone changed.  It sets selectedZone to a new object (a copy,    *)
(* counted in selectedZoneCopies), which schedules it again.               *)
(***************************************************************************)
SelectedEffect ==
    /\ isMounted
    /\ selectedPending
    /\ IF selectedZone # <<>> /\ userLocation # <<>>
       THEN /\ selectedZone' = <<WithDistance(selectedZone[1], userLocation[1])>>
            /\ selectedZoneCopies' = 1 - selectedZoneCopies
            /\ selectedPending' = TRUE
       ELSE /\ selectedPending' = FALSE
            /\ UNCHANGED <<selectedZone, selectedZoneCopies>>
    /\ UNCHANGED <<document, pc, initialAreaZones, initialPointZones,
                   mergeGroups, processedZones, loading, error,
                   locationStatus, userLocation, nearestZones,
                   nearestPending, positionObtained, isMounted,
                   pendingRequests, scriptVars, distanceVars>>

(***************************************************************************)
(* handleZoneSelection.  The map hands it the zone object of the processed *)
(* zone list, the nearest list the object of nearestZones, the Cancel      *)
(* button null; zone.distance = distance writes into that object.  The map *)
(* and the lists are rendered when neither loading nor error is set.       *)
(***************************************************************************)
\* a variant of Annotated without the test of userLocation: the distance to
\* an unknown position is NaN
AnnotatedUnguarded(zone) ==
    IF userLocation # <<>> THEN WithDistance(zone, userLocation[1])
    ELSE IF "distance" \in DOMAIN zone THEN [zone EXCEPT !.distance = NaN]
    ELSE zone @@ [distance |-> NaN]

\* lines 437-445: the zone after the assignment of zone.distance
Annotated(zone) ==
    IF userLocation # <<>> THEN WithDistance(zone, userLocation[1]) ELSE zone

\* onZoneSelect of MapDisplay: handleZoneSelection(zone, false)
SelectFromMap(k) ==
    /\ isMounted
    /\ ~loading
    /\ error = ""
    /\ EffectsFlushed
    /\ k \in 1..Len(processedZones)
    /\ processedZones' = [processedZones EXCEPT ![k] = Annotated(@)]
    /\ selectedZone' = <<Annotated(processedZones[k])>>
    /\ selectedZoneCopies' = 0
    /\ selectedPending' = TRUE
    /\ UNCHANGED <<document, pc, initialAreaZones, initialPointZones,
                   mergeGroups, loading, error, locationStatus, userLocation,
                   nearestZones, nearestPending, positionObtained, isMounted,
                   pendingRequests, scriptVars, distanceVars>>

\* a press on an entry of the nearest list: handleZoneSelection(zone, true)
SelectFromList(k) ==
    /\ isMounted
    /\ ~loading
    /\ error = ""
    /\ EffectsFlushed
    /\ k \in 1..Len(nearestZones)
    /\ nearestZones' = [nearestZones EXCEPT ![k] = Annotated(@)]
    /\ selectedZone' = <<Annotated(nearestZones[k])>>
    /\ selectedZoneCopies' = 0
    /\ selectedPending' = TRUE
    /\ UNCHANGED <<document, pc, initialAreaZones, initialPointZones,
                   mergeGroups, processedZones, loading, error,
                   locationStatus, userLocation, nearestPending,
                   positionObtained, isMounted, pendingRequests,
                   scriptVars, distanceVars>>

\* the Cancel button of the navigation prompt: handleZoneSelection(null)
CancelSelection ==
    /\ isMounted
    /\ ~loading
    /\ error = ""
    /\ EffectsFlushed
    /\ selectedZone # <<>>
    /\ selectedZone' = <<>>
    /\ selectedZoneCopies' = 0
    /\ selectedPending' = TRUE
    /\ UNCHANGED <<document, pc, initialAreaZones, initialPointZones,
                   mergeGroups, processedZones, loading, error,
                   locationStatus, userLocation, nearestZones,
                   nearestPending, positionObtained, isMounted,
                   pendingRequests, scriptVars, distanceVars>>

\* the cleanup of the initialization effect, run when the screen unmounts;
\* after it no effect runs and nothing is rendered
Unmount ==
    /\ isMounted
    /\ pc # "mount"
    /\ EffectsFlushed
    /\ isMounted' = FALSE
    /\ UNCHANGED <<document, pc, initialAreaZones, initialPointZones,
                   mergeGroups, processedZones, loading, error,
                   locationStatus, userLocation, nearestZones,
                   nearestPending, selectedZone, selectedPending,
                   positionObtained, pendingRequests, scriptVars,
                   distanceVars, selectedZoneCopies>>

(***************************************************************************)
(* The data filter script (src/unnamed/part_000).  originalData is what    *)
(* JSON.parse returned, so it holds JSON values only and                   *)
(* JSON.stringify / JSON.parse give it back member for member.             *)
(***************************************************************************)
\* a variant of KeepsFeature that keeps every feature that has a CODE
KeepsFeatureWithCode(feature) == CodeOf(feature) # "undefined"

\* the callback of lines 48-51
KeepsFeature(feature) ==
    LET code == CodeOf(feature)
    IN  code = "GROEN" \/ code = "ORANJE"

\* originalData.features.filter(...)
filteredFeatures(data) == SelectSeq(data.features, KeepsFeature)

\* { ...originalData, features: filteredFeatures }
filteredData(data) == [data EXCEPT !.features = filteredFeatures(data)]

\* the script from the loaded data to its end: originalData.features.length
\* throws inside the try when there is no features member (exit code 1),
\* feature.properties throws on a null feature (uncaught)
FilterScript ==
    /\ scriptPc = "start"
    /\ IF "features" \notin DOMAIN originalData
       THEN /\ scriptPc' = "exited"
            /\ UNCHANGED filteredFile
       ELSE IF \E i \in 1..Len(originalData.features) :
                   IsNullFeature(originalData.features[i])
       THEN /\ scriptPc' = "threw"
            /\ UNCHANGED filteredFile
       ELSE /\ scriptPc' = "written"
            /\ filteredFile' = <<filteredData(originalData)>>
    /\ UNCHANGED <<originalData, screenVars, distanceVars>>

\* a call of getDistance returns
CallGetDistance ==
    /\ distanceResult = <<>>
    /\ distanceResult' = <<getDistance(distanceCall.lat1, distanceCall.lon1,
                                       distanceCall.lat2, distanceCall.lon2)>>
    /\ UNCHANGED <<distanceCall, screenVars, scriptVars>>

\* the screen without zone selection, on the ranking inputs
Next ==
    \/ InitializeApp
    \/ PermissionDenied
    \/ PermissionGranted
    \/ PositionFetched
    \/ LocationError
    \/ RefreshPressed
    \/ NearestEffect

\* the whole screen
NextScreen ==
    \/ InitializeApp
    \/ PermissionDenied
    \/ PermissionGranted
    \/ PositionFetched
    \/ LocationError
    \/ RefreshPressed
    \/ NearestEffect
    \/ SelectedEffect
    \/ \E k \in 1..MaxScreenFeatures : SelectFromMap(k)
    \/ \E k \in 1..MAX_NEAREST : SelectFromList(k)
    \/ CancelSelection

Spec == Init /\ [][Next]_vars

\* the classification and merge pass alone, on the inputs of each
SpecClassify == InitClassify /\ [][InitializeApp]_vars

SpecMerge == InitMerge /\ [][InitializeApp]_vars

\* the whole screen on the small documents
SpecScreen == InitScreen /\ [][NextScreen]_vars

\* the whole screen on short documents of the ranking inputs; React runs a
\* scheduled effect
SpecRecompute ==
    InitRecompute /\ [][NextScreen]_vars /\ WF_vars(NearestEffect)

\* the same, with both effects run when scheduled
SpecSelection ==
    /\ InitRecompute
    /\ [][NextScreen]_vars
    /\ WF_vars(NearestEffect)
    /\ WF_vars(SelectedEffect)

\* the whole screen and its unmount
NextLifecycle ==
    \/ InitializeApp
    \/ PermissionDenied
    \/ PermissionGranted
    \/ PositionFetched
    \/ LocationError
    \/ RefreshPressed
    \/ NearestEffect
    \/ SelectedEffect
    \/ \E k \in 1..MaxScreenFeatures : SelectFromMap(k)
    \/ \E k \in 1..MAX_NEAREST : SelectFromList(k)
    \/ CancelSelection
    \/ Unmount

SpecLifecycle == InitRecompute /\ [][NextLifecycle]_vars

\* the filter script alone
SpecFilter == InitFilter /\ [][FilterScript]_vars

\* a call of getDistance alone
SpecDistance == InitDistance /\ [][CallGetDistance]_vars


(***************************************************************************)
(* Vocabulary of the properties.                                           *)
(***************************************************************************)
Categories == {"GROEN", "ORANJE"}

\* the classification and merge pass ran to its end
PassDone == pc \notin {"mount", "failed"}

Features == IF "features" \in DOMAIN document THEN document.features ELSE <<>>

NoNullFeature == \A i \in 1..Len(Features) : ~IsNullFeature(Features[i])

TempId(i) == <<"zone_", NumberToString(i - 1)>>

IndicesWithId(zones, id) == {k \in 1..Len(zones) : zones[k].id = id}

\* the classifier keeps the feature: category, geometry, centroid
Accepted(feature) ==
    /\ ~IsNullFeature(feature)
    /\ CodeOf(feature) \in Categories
    /\ "geometry" \in DOMAIN feature
    /\ getCentroid(feature.geometry) # <<>>

Rejected(feature) ==
    /\ ~IsNullFeature(feature)
    /\ \/ CodeOf(feature) \notin Categories
       \/ "geometry" \notin DOMAIN feature
       \/ getCentroid(feature.geometry) = <<>>

\* OPPERVLAKTE parses to a number > 0
ParsesPositive(feature) ==
    /\ "OPPERVLAKTE" \in DOMAIN feature.properties
    /\ parseFloat(feature.properties.OPPERVLAKTE) # NaN
    /\ parseFloat(feature.properties.OPPERVLAKTE) > 0

\* the AREA zones of a category after classification, in input order
AreasOf(c) == SelectSeq(initialAreaZones, LAMBDA z : z.properties.CODE = c)

\* the zones the merge pass emitted for a category, one per group
EmittedOf(c) ==
    IF c = "GROEN"
    THEN SubSeq(processedZones, 1, Len(mergeGroups.GROEN))
    ELSE SubSeq(processedZones, Len(mergeGroups.GROEN) + 1,
                Len(mergeGroups.GROEN) + Len(mergeGroups.ORANJE))

Members(c, k) == {mergeGroups[c][k][m] : m \in 1..Len(mergeGroups[c][k])}

AreaZone(id) == CHOOSE z \in {initialAreaZones[k] : k \in 1..Len(initialAreaZones)} :
                    z.id = id

RECURSIVE SumOfAreas(_)
SumOfAreas(ids) ==
    IF ids = <<>> THEN 0
    ELSE AreaZone(Head(ids)).area + SumOfAreas(Tail(ids))

\* the 50 m buffers of the two zones' geometries intersect
BuffersIntersect(x, y) ==
    /\ ~TurfThrows(x.geometry)
    /\ ~TurfThrows(y.geometry)
    /\ booleanIntersects(TurfBuffer(x.geometry, 50), TurfBuffer(y.geometry, 50))

\* buffering or the intersection test throws for the pair
PairThrows(x, y) == TurfThrows(x.geometry) \/ TurfThrows(y.geometry)

\* the group of category c that holds the zone at position x of AreasOf(c)
GroupOf(c, x) ==
    CHOOSE k \in 1..Len(mergeGroups[c]) : AreasOf(c)[x].id \in Members(c, k)

\* the position in AreasOf(c) of the anchor of group k
AnchorOf(c, k) ==
    CHOOSE x \in 1..Len(AreasOf(c)) : AreasOf(c)[x].id = mergeGroups[c][k][1]

IsAnchor(c, x) == AnchorOf(c, GroupOf(c, x)) = x

\* y was still unclaimed when the anchor at position x started its scan
UnclaimedAt(c, y, x) == AnchorOf(c, GroupOf(c, y)) >= x

\* every zone of the category is in exactly one group
GroupsPartition(c) ==
    \A x \in 1..Len(AreasOf(c)) :
        Cardinality({k \in 1..Len(mergeGroups[c]) :
                        AreasOf(c)[x].id \in Members(c, k)}) = 1


(***************************************************************************)
(* C1.  Every feature with CODE GROEN or ORANJE, a geometry and a centroid *)
(* yields exactly one zone: an AREA zone carrying the parsed value iff     *)
(* OPPERVLAKTE parses to a number > 0, else a POINT zone without an area.  *)
(***************************************************************************)
C1_Classification ==
    PassDone =>
        \A i \in 1..Len(Features) :
            Accepted(Features[i]) =>
                LET inArea == IndicesWithId(initialAreaZones, TempId(i))
                    inPoint == IndicesWithId(initialPointZones, TempId(i))
                IN  /\ Cardinality(inArea) + Cardinality(inPoint) = 1
                    /\ IF ParsesPositive(Features[i])
                       THEN \E k \in inArea :
                                /\ initialAreaZones[k].zoneType = "area"
                                /\ initialAreaZones[k].area =
                                     parseFloat(Features[i].properties.OPPERVLAKTE)
                       ELSE \E k \in inPoint :
                                /\ initialPointZones[k].zoneType = "point"
                                /\ "area" \notin DOMAIN initialPointZones[k]

\* an AREA zone with a fractional area beside a POINT zone whose OPPERVLAKTE
\* is a string that is not a positive number
C1_Witness ==
    /\ PassDone
    /\ \E k \in 1..Len(initialAreaZones) : initialAreaZones[k].area = 35
    /\ \E k \in 1..Len(initialPointZones) :
           "OPPERVLAKTE" \in DOMAIN initialPointZones[k].properties

(***************************************************************************)
(* C2 as stated.  Any two AREA zones of one category whose 50 m buffers    *)
(* intersect end in one merged zone whose area is the sum of its inputs.   *)
(***************************************************************************)
C2_AnyNearPairMerged ==
    PassDone =>
        \A c \in Categories :
            \A x, y \in 1..Len(AreasOf(c)) :
                (x # y /\ BuffersIntersect(AreasOf(c)[x], AreasOf(c)[y])) =>
                    /\ GroupOf(c, x) = GroupOf(c, y)
                    /\ EmittedOf(c)[GroupOf(c, x)].area =
                         SumOfAreas(mergeGroups[c][GroupOf(c, x)])

(***************************************************************************)
(* C2 as amended.  Two AREA zones of one category whose 50 m buffers       *)
(* intersect end in one merged zone, whose area is the sum of its inputs,  *)
(* when the earlier of the two is the anchor of its group and the later    *)
(* was not claimed by an earlier anchor.                                   *)
(***************************************************************************)
C2_NearPairOfAnchorMerged ==
    PassDone =>
        \A c \in Categories :
            \A x, y \in 1..Len(AreasOf(c)) :
                (/\ x < y
                 /\ BuffersIntersect(AreasOf(c)[x], AreasOf(c)[y])
                 /\ IsAnchor(c, x)
                 /\ UnclaimedAt(c, y, x)) =>
                    /\ GroupOf(c, x) = GroupOf(c, y)
                    /\ EmittedOf(c)[GroupOf(c, x)].area =
                         SumOfAreas(mergeGroups[c][GroupOf(c, x)])
                    /\ EmittedOf(c)[GroupOf(c, x)].id[1] = "merged_"

\* the chain: a zone claimed by the first anchor is near a third zone that
\* the anchor is not near, and the third stays on its own
C2_Witness ==
    /\ PassDone
    /\ \E c \in Categories :
           \E x, y, z \in 1..Len(AreasOf(c)) :
               /\ x < y /\ y < z
               /\ BuffersIntersect(AreasOf(c)[x], AreasOf(c)[y])
               /\ BuffersIntersect(AreasOf(c)[y], AreasOf(c)[z])
               /\ ~BuffersIntersect(AreasOf(c)[x], AreasOf(c)[z])
               /\ IsAnchor(c, x)
               /\ GroupOf(c, x) = GroupOf(c, y)
               /\ GroupOf(c, z) # GroupOf(c, y)

(***************************************************************************)
(* C3.  Every emitted zone aggregates zones of one category only: the      *)
(* members of a group all carry the category of the run, no zone is in a   *)
(* GROEN group and an ORANJE group, and the emitted area is the sum of the *)
(* members' areas.                                                         *)
(***************************************************************************)
C3_NoCrossCategoryMerge ==
    PassDone =>
        /\ \A c \in Categories :
               \A k \in 1..Len(mergeGroups[c]) :
                   /\ EmittedOf(c)[k].properties.CODE = c
                   /\ \A id \in Members(c, k) : AreaZone(id).properties.CODE = c
                   /\ EmittedOf(c)[k].area = SumOfAreas(mergeGroups[c][k])
        /\ \A g \in 1..Len(mergeGroups.GROEN), o \in 1..Len(mergeGroups.ORANJE) :
               Members("GROEN", g) \cap Members("ORANJE", o) = {}

\* a GROEN and an ORANJE AREA zone with intersecting buffers, and a merged
\* GROEN zone
C3_Witness ==
    /\ PassDone
    /\ \E g \in 1..Len(AreasOf("GROEN")), o \in 1..Len(AreasOf("ORANJE")) :
           BuffersIntersect(AreasOf("GROEN")[g], AreasOf("ORANJE")[o])
    /\ \E k \in 1..Len(mergeGroups.GROEN) : Len(mergeGroups.GROEN[k]) > 1

(***************************************************************************)
(* C4.  An AREA zone whose 50 m buffer intersects that of no other AREA    *)
(* zone of its category is emitted as it was classified: same id, kind,    *)
(* area, geometry and centroid.                                            *)
(***************************************************************************)
Isolated(c, x) ==
    \A y \in 1..Len(AreasOf(c)) :
        y # x => ~BuffersIntersect(AreasOf(c)[x], AreasOf(c)[y])

C4_IsolatedZoneUnchanged ==
    PassDone =>
        \A c \in Categories :
            \A x \in 1..Len(AreasOf(c)) :
                Isolated(c, x) =>
                    \E k \in 1..Len(EmittedOf(c)) :
                        /\ EmittedOf(c)[k] = AreasOf(c)[x]
                        /\ mergeGroups[c][k] = <<AreasOf(c)[x].id>>

\* an isolated zone after a merged group of the same category
C4_Witness ==
    /\ PassDone
    /\ \E c \in Categories :
           /\ \E x \in 1..Len(AreasOf(c)) : x > 1 /\ Isolated(c, x)
           /\ \E k \in 1..Len(mergeGroups[c]) : Len(mergeGroups[c][k]) > 1

(***************************************************************************)
(* C5.  When the n >= 2 AREA zones of a category are pairwise within the   *)
(* threshold, the category is emitted as one merged zone whose area is the *)
(* sum of all n, and every POINT zone is in the final list, unmerged.      *)
(***************************************************************************)
PairwiseNear(c) ==
    /\ Len(AreasOf(c)) >= 2
    /\ \A x, y \in 1..Len(AreasOf(c)) :
           x # y => BuffersIntersect(AreasOf(c)[x], AreasOf(c)[y])

AllIds(zones) == [k \in 1..Len(zones) |-> zones[k].id]

C5_AdjacentCluster ==
    PassDone =>
        \A c \in Categories :
            PairwiseNear(c) =>
                /\ Len(EmittedOf(c)) = 1
                /\ EmittedOf(c)[1].id[1] = "merged_"
                /\ EmittedOf(c)[1].area = SumOfAreas(AllIds(AreasOf(c)))
                /\ SubSeq(processedZones,
                          Len(processedZones) - Len(initialPointZones) + 1,
                          Len(processedZones)) = initialPointZones
                /\ \A k \in 1..Len(initialPointZones) :
                       initialPointZones[k].zoneType = "point"

\* 3 adjacent GROEN areas and 1 ORANJE point give 1 merged GROEN zone and
\* the ORANJE point
C5_Witness ==
    /\ PassDone
    /\ PairwiseNear("GROEN")
    /\ Len(AreasOf("GROEN")) = 3
    /\ Len(processedZones) = 2
    /\ processedZones[2].zoneType = "point"
    /\ processedZones[2].properties.CODE = "ORANJE"

C7_MalformedDocumentFatal ==
    (pc # "mount" /\ "features" \notin DOMAIN document) =>
        (pc = "failed" /\ error # "")

(***************************************************************************)
(* C8.  A pair (anchor, candidate) for which turf throws is treated as not *)
(* intersecting: the candidate is not claimed and its area not added, the  *)
(* scan goes on with the later candidates and the later anchors, and the   *)
(* result covers every zone of the category.                               *)
(***************************************************************************)
C8_MergeFailureIsolation ==
    PassDone =>
        \A c \in Categories :
            /\ GroupsPartition(c)
            /\ Len(EmittedOf(c)) = Len(mergeGroups[c])
            /\ \A a, j \in 1..Len(AreasOf(c)) :
                   (/\ a < j
                    /\ IsAnchor(c, a)
                    /\ UnclaimedAt(c, j, a)
                    /\ PairThrows(AreasOf(c)[a], AreasOf(c)[j])) =>
                       /\ GroupOf(c, j) # GroupOf(c, a)
                       /\ EmittedOf(c)[GroupOf(c, a)].area =
                            SumOfAreas(mergeGroups[c][GroupOf(c, a)])
                       /\ \A y \in (j + 1)..Len(AreasOf(c)) :
                              (/\ UnclaimedAt(c, y, a)
                               /\ BuffersIntersect(AreasOf(c)[a], AreasOf(c)[y])) =>
                                  GroupOf(c, y) = GroupOf(c, a)

\* turf throws for (anchor, candidate), and a later candidate is claimed by
\* the same anchor
C8_Witness ==
    /\ PassDone
    /\ \E c \in Categories :
           \E a, j, y \in 1..Len(AreasOf(c)) :
               /\ a < j /\ j < y
               /\ IsAnchor(c, a)
               /\ PairThrows(AreasOf(c)[a], AreasOf(c)[j])
               /\ ~TurfThrows(AreasOf(c)[a].geometry)
               /\ GroupOf(c, y) = GroupOf(c, a)


(***************************************************************************)
(* Ranking.  The nearest list is current when a user position is known,    *)
(* the Zone Store is not empty and the nearest-zones effect has run for    *)
(* them.  `<=` and `<` on distances are those of JS numbers: false when an *)
(* operand is NaN.                                                         *)
(***************************************************************************)
RankingCurrent ==
    userLocation # <<>> /\ Len(processedZones) > 0 /\ ~nearestPending

NumLessEq(a, b) == IsNumber(a) /\ IsNumber(b) /\ a <= b
NumLess(a, b) == IsNumber(a) /\ IsNumber(b) /\ a < b
NumEqual(a, b) == IsNumber(a) /\ IsNumber(b) /\ a = b

\* the distance of a zone of the store to the user
DistanceToUser(zone) ==
    getDistance(userLocation[1].latitude, userLocation[1].longitude,
                zone.centroid.lat, zone.centroid.lng)

StorePosition(id) == CHOOSE k \in 1..Len(processedZones) : processedZones[k].id = id

InNearest(id) == IndicesWithId(nearestZones, id) # {}

(***************************************************************************)
(* C9 as stated.  After a ranking pass the nearest list has                *)
(* min(MAX_NEAREST, number of zones) entries, in non-decreasing order of   *)
(* distance, and no zone left out is strictly nearer than a listed one.    *)
(***************************************************************************)
C9_TopKRanking ==
    RankingCurrent =>
        /\ Len(nearestZones) =
             (IF Len(processedZones) < MAX_NEAREST
              THEN Len(processedZones) ELSE MAX_NEAREST)
        /\ \A i \in 1..(Len(nearestZones) - 1) :
               NumLessEq(nearestZones[i].distance, nearestZones[i + 1].distance)
        /\ \A k \in 1..Len(processedZones) :
               ~InNearest(processedZones[k].id) =>
                   \A i \in 1..Len(nearestZones) :
                       ~NumLess(DistanceToUser(processedZones[k]),
                                nearestZones[i].distance)

(***************************************************************************)
(* C10 as stated.  Zones at equal distance from the user are listed in the *)
(* order they have in the Zone Store, also across the cut at MAX_NEAREST:  *)
(* a zone left out is not before a listed zone of the same distance.       *)
(***************************************************************************)
C10_StableRanking ==
    RankingCurrent =>
        /\ \A i, j \in 1..Len(nearestZones) :
               (i < j /\ NumEqual(nearestZones[i].distance,
                                  nearestZones[j].distance)) =>
                   StorePosition(nearestZones[i].id)
                       < StorePosition(nearestZones[j].id)
        /\ \A k \in 1..Len(processedZones) :
               ~InNearest(processedZones[k].id) =>
                   \A i \in 1..Len(nearestZones) :
                       NumEqual(DistanceToUser(processedZones[k]),
                                nearestZones[i].distance) =>
                           StorePosition(nearestZones[i].id) < k


C12_CentroidDefined ==
    PassDone =>
        /\ \A k \in 1..Len(processedZones) :
               /\ IsNumber(processedZones[k].centroid.lat)
               /\ IsNumber(processedZones[k].centroid.lng)
        /\ \A i \in 1..Len(Features) :
               ("geometry" \in DOMAIN Features[i]
                /\ Features[i].geometry = BadHead) =>
                   getCentroid(Features[i].geometry) = <<>>

(***************************************************************************)
(* C13.  No two zones of the published list have the same id, as strings.  *)
(***************************************************************************)
C13_UniqueIds ==
    PassDone =>
        \A a, b \in 1..Len(processedZones) :
            a # b => IdText(processedZones[a].id) # IdText(processedZones[b].id)

\* a merged GROEN zone and a merged ORANJE zone with the same anchor index,
\* whose anchors are the features 0 and 1
C13_Witness ==
    /\ PassDone
    /\ \E a, b \in 1..Len(processedZones) :
           /\ processedZones[a].id = <<"merged_", "GROEN", "_", "0">>
           /\ processedZones[b].id = <<"merged_", "ORANJE", "_", "0">>

(***************************************************************************)
(* C14.  For every zone of the processed list, of the nearest list and for *)
(* the selected zone: zoneType is 'area' iff area is present, and a        *)
(* present area is > 0.                                                    *)
(***************************************************************************)
KindMatchesArea(zone) ==
    /\ zone.zoneType \in {"area", "point"}
    /\ (zone.zoneType = "area") <=> ("area" \in DOMAIN zone)
    /\ "area" \in DOMAIN zone => IsNumber(zone.area) /\ zone.area > 0

C14_KindAreaInvariant ==
    /\ \A k \in 1..Len(processedZones) : KindMatchesArea(processedZones[k])
    /\ \A k \in 1..Len(nearestZones) : KindMatchesArea(nearestZones[k])
    /\ selectedZone # <<>> => KindMatchesArea(selectedZone[1])

\* a merged zone is selected and has its distance, a point is in the nearest
\* list
C14_Witness ==
    /\ selectedZone # <<>>
    /\ selectedZone[1].id[1] = "merged_"
    /\ "distance" \in DOMAIN selectedZone[1]
    /\ \E k \in 1..Len(nearestZones) : nearestZones[k].zoneType = "point"

(***************************************************************************)
(* C15.  A group of more than one member is emitted as one zone with the   *)
(* id merged_<CODE>_<index of the anchor among the category's AREA zones>, *)
(* the anchor's geometry and centroid and the sum of the members' areas; a *)
(* group of one member is emitted with its zone_<i> id.                    *)
(***************************************************************************)
C15_MergedZoneRepresentation ==
    PassDone =>
        \A c \in Categories :
            \A k \in 1..Len(mergeGroups[c]) :
                LET group == mergeGroups[c][k]
                    anchor == AreaZone(group[1])
                    emitted == EmittedOf(c)[k]
                IN  IF Len(group) > 1
                    THEN /\ IdText(emitted.id) =
                              IdText(<<"merged_", c, "_",
                                       NumberToString(AnchorOf(c, k) - 1)>>)
                         /\ emitted.geometry = anchor.geometry
                         /\ emitted.centroid = anchor.centroid
                         /\ emitted.area = SumOfAreas(group)
                    ELSE /\ emitted.id = anchor.id
                         /\ emitted.id[1] = "zone_"

\* a merged group whose anchor is not the first zone of its category, after
\* a group of one member
C15_Witness ==
    /\ PassDone
    /\ \E c \in Categories :
           \E j, k \in 1..Len(mergeGroups[c]) :
               /\ Len(mergeGroups[c][j]) = 1
               /\ Len(mergeGroups[c][k]) > 1
               /\ j < k
               /\ AnchorOf(c, k) > 1

(***************************************************************************)
(* C16.  A zone claimed by an earlier group is in no later group, also     *)
(* when it is near the later anchor; and for a chain A-B-C (B near A and   *)
(* C, A not near C) given in the order A, B, C the pass emits A+B and C,   *)
(* while the same features in the order B, A, C are emitted as one zone    *)
(* A+B+C.                                                                  *)
(***************************************************************************)
\* the 1-based index in the document of the feature a classified zone is of
FeatureIndex(zone) == DigitValue(zone.id[2]) + 1

SwapFeatures(features, i, j) ==
    [k \in 1..Len(features) |->
        IF k = i THEN features[j] ELSE IF k = j THEN features[i]
        ELSE features[k]]

\* the areas of the zones a pass emitted for the AREA zones of a category
EmittedAreas(zones, c) ==
    LET emitted == SelectSeq(zones, LAMBDA z :
                       z.zoneType = "area" /\ z.properties.CODE = c)
    IN  [k \in 1..Len(emitted) |-> emitted[k].area]

\* the AREA zones of the category are a chain, in the order A, B, C
IsChain(c) ==
    /\ Len(AreasOf(c)) = 3
    /\ BuffersIntersect(AreasOf(c)[1], AreasOf(c)[2])
    /\ BuffersIntersect(AreasOf(c)[2], AreasOf(c)[3])
    /\ ~BuffersIntersect(AreasOf(c)[1], AreasOf(c)[3])

C16_OrderDependence ==
    PassDone =>
        \A c \in Categories :
            /\ \A j, k \in 1..Len(mergeGroups[c]) :
                   j < k => Members(c, j) \cap Members(c, k) = {}
            /\ IsChain(c) =>
                   LET A == AreasOf(c)[1]
                       B == AreasOf(c)[2]
                       C == AreasOf(c)[3]
                       reordered ==
                           [document EXCEPT !.features =
                               SwapFeatures(@, FeatureIndex(A), FeatureIndex(B))]
                   IN  /\ EmittedAreas(processedZones, c)
                            = <<A.area + B.area, C.area>>
                       /\ EmittedAreas(ProcessingPass(reordered), c)
                            = <<A.area + B.area + C.area>>

\* a chain in the order A, B, C: B was claimed by A and is near the later
\* anchor C
C16_Witness ==
    /\ PassDone
    /\ \E c \in Categories :
           /\ IsChain(c)
           /\ Len(mergeGroups[c]) = 2
           /\ AreasOf(c)[2].id \in Members(c, 1)
           /\ mergeGroups[c][2] = <<AreasOf(c)[3].id>>

(***************************************************************************)
(* C17.  Classification yields a sequence of AREA zones and a sequence of  *)
(* POINT zones with no zone in both, and within each sequence the zones    *)
(* are in the order of their source features.                              *)
(***************************************************************************)
\* the zones are of features of increasing index, each with its feature's
\* properties and geometry
InFeatureOrder(zones) ==
    /\ \A a, b \in 1..Len(zones) :
           a < b => FeatureIndex(zones[a]) < FeatureIndex(zones[b])
    /\ \A a \in 1..Len(zones) :
           /\ FeatureIndex(zones[a]) \in 1..Len(Features)
           /\ zones[a].properties = Features[FeatureIndex(zones[a])].properties
           /\ zones[a].geometry = Features[FeatureIndex(zones[a])].geometry

C17_ClassifierOutputShape ==
    PassDone =>
        /\ \A a \in 1..Len(initialAreaZones) :
               initialAreaZones[a].zoneType = "area"
        /\ \A b \in 1..Len(initialPointZones) :
               initialPointZones[b].zoneType = "point"
        /\ \A a \in 1..Len(initialAreaZones), b \in 1..Len(initialPointZones) :
               initialAreaZones[a].id # initialPointZones[b].id
        /\ InFeatureOrder(initialAreaZones)
        /\ InFeatureOrder(initialPointZones)

\* two AREA zones of different features
C17_Witness ==
    /\ PassDone
    /\ Len(initialAreaZones) = 2
    /\ initialAreaZones[1].properties # initialAreaZones[2].properties
    /\ initialAreaZones[1].geometry # initialAreaZones[2].geometry

(***************************************************************************)
(* C18.  A location refresh that ends with permission denied or with a     *)
(* thrown error leaves the error state unset and the processed zone list   *)
(* as it was, and records a null position and a status; and while the      *)
(* position is null no step changes the nearest list or the Zone Store,    *)
(* and the selected zone is only cleared or set to a zone of the store or  *)
(* of the nearest list as that zone is.                                    *)
(***************************************************************************)
RefreshEndsUnavailable ==
    /\ pc \in {"awaitPermission", "awaitPosition"}
    /\ pc' = "idle"
    /\ locationStatus' \in {"Permission denied", "Error getting location"}

C18_PositionUnavailableNonFatal ==
    [][/\ RefreshEndsUnavailable =>
              /\ error = ""
              /\ error' = ""
              /\ processedZones' = processedZones
              /\ userLocation' = <<>>
       /\ (pc # "mount" /\ userLocation = <<>>) =>
              /\ nearestZones' = nearestZones
              /\ processedZones' = processedZones
              /\ \/ selectedZone' = selectedZone
                 \/ selectedZone' = <<>>
                 \/ \E k \in 1..Len(processedZones) :
                        selectedZone' = <<processedZones[k]>>
                 \/ \E k \in 1..Len(nearestZones) :
                        selectedZone' = <<nearestZones[k]>>]_vars

\* a refresh has failed after an earlier fetch succeeded, a zone is selected
\* and both effects have run for the null position
C18_Witness ==
    /\ positionObtained
    /\ userLocation = <<>>
    /\ locationStatus = "Error getting location"
    /\ error = ""
    /\ Len(nearestZones) > 0
    /\ selectedZone # <<>>
    /\ ~nearestPending
    /\ ~selectedPending

(***************************************************************************)
(* C19.  Before any user position has been obtained the nearest list is    *)
(* empty and no zone of the Zone Store, and not the selected zone, has a   *)
(* distance.                                                               *)
(***************************************************************************)
C19_DistanceAbsentUntilPosition ==
    ~positionObtained =>
        /\ nearestZones = <<>>
        /\ \A k \in 1..Len(processedZones) :
               "distance" \notin DOMAIN processedZones[k]
        /\ selectedZone # <<>> => "distance" \notin DOMAIN selectedZone[1]

\* no position yet, the permission was denied, a zone is selected and the
\* selected-zone effect has run for it
C19_Witness ==
    /\ ~positionObtained
    /\ locationStatus = "Permission denied"
    /\ selectedZone # <<>>
    /\ ~selectedPending

(***************************************************************************)
(* C20 as stated.  After a successful location fetch with a non-empty Zone *)
(* Store the nearest list is eventually the first MAX_NEAREST zones of the *)
(* whole store sorted by distance to the new position, every entry         *)
(* carrying its distance to that position.                                 *)
(***************************************************************************)
RecomputeDue ==
    userLocation # <<>> /\ Len(processedZones) > 0 /\ nearestPending

RankedForPosition ==
    /\ RankingCurrent
    /\ Len(nearestZones) =
         (IF Len(processedZones) < MAX_NEAREST
          THEN Len(processedZones) ELSE MAX_NEAREST)
    /\ \A i \in 1..Len(nearestZones) :
           \E k \in 1..Len(processedZones) :
               nearestZones[i] = WithDistance(processedZones[k], userLocation[1])
    /\ \A i, j \in 1..Len(nearestZones) :
           i # j => nearestZones[i].id # nearestZones[j].id
    /\ \A i \in 1..(Len(nearestZones) - 1) :
           NumLessEq(nearestZones[i].distance, nearestZones[i + 1].distance)
    /\ \A k \in 1..Len(processedZones) :
           ~InNearest(processedZones[k].id) =>
               \A i \in 1..Len(nearestZones) :
                   ~NumLess(DistanceToUser(processedZones[k]),
                            nearestZones[i].distance)

C20_FullRecomputation == RecomputeDue ~> RankedForPosition

(***************************************************************************)
(* C21.  Only `distance` is ever mutated.  After the load every step       *)
(* leaves the Zone Store with the same zones in the same order, equal in   *)
(* every field but `distance`; every zone of the nearest list and the      *)
(* selected zone equal a zone of the store in every field but `distance`;  *)
(* and a run of the selected-zone effect changes neither the Zone Store    *)
(* nor the nearest list.                                                   *)
(***************************************************************************)
\* the zone without its distance field
WithoutDistance(zone) == [f \in DOMAIN zone \ {"distance"} |-> zone[f]]

WithoutDistances(zones) ==
    [k \in 1..Len(zones) |-> WithoutDistance(zones[k])]

\* the zone is a zone of the store, up to the distance
IsStoreZone(zone) ==
    \E m \in 1..Len(processedZones) :
        WithoutDistance(zone) = WithoutDistance(processedZones[m])

C21_OnlyDistanceMutated ==
    /\ [][pc # "mount" =>
            WithoutDistances(processedZones') = WithoutDistances(processedZones)]_vars
    /\ [](\A k \in 1..Len(nearestZones) : IsStoreZone(nearestZones[k]))
    /\ [](selectedZone # <<>> => IsStoreZone(selectedZone[1]))
    /\ [][SelectedEffect => UNCHANGED <<processedZones, nearestZones>>]_vars

\* a zone of the store that got its distance from a selection on the map,
\* the selected zone rewritten for a known position, and a nearest list
C21_Witness ==
    /\ userLocation # <<>>
    /\ nearestZones # <<>>
    /\ selectedZone # <<>>
    /\ "distance" \in DOMAIN selectedZone[1]
    /\ \E k \in 1..Len(processedZones) :
           /\ "distance" \in DOMAIN processedZones[k]
           /\ "area" \in DOMAIN processedZones[k]

(***************************************************************************)
(* C22.  Atomic publication of the Zone Store.  Before the pass, and after *)
(* a failed one, the store is the empty list; the step of initializeApp    *)
(* that publishes the store sets it to the complete result of              *)
(* classification and merge of the document (GROEN groups, ORANJE groups,  *)
(* points); and that step, taken from the empty list at the mount, is the  *)
(* only one that changes the list (distances aside), so the store is       *)
(* written at most once and holds the complete result from then on.        *)
(***************************************************************************)
C22_AtomicPublication ==
    /\ [](pc \in {"mount", "failed"} => processedZones = <<>>)
    /\ [][(pc = "mount" /\ pc' = "awaitPermission")
            => processedZones' = ProcessingPass(document)]_vars
    /\ [][WithoutDistances(processedZones') # WithoutDistances(processedZones)
            => /\ pc = "mount"
               /\ pc' = "awaitPermission"
               /\ processedZones = <<>>]_vars

\* the readers have run on a published store that holds a merged GROEN zone
\* and an ORANJE point zone
C22_Witness ==
    /\ PassDone
    /\ nearestZones # <<>>
    /\ selectedZone # <<>>
    /\ \E k \in 1..Len(processedZones) :
           processedZones[k].properties.CODE = "ORANJE"
    /\ \E k \in 1..Len(processedZones) :
           /\ processedZones[k].properties.CODE = "GROEN"
           /\ processedZones[k].id[1] = MERGED_ZONE_ID_PREFIX

(***************************************************************************)
(* C23.  Haversine identities.  A call of getDistance with twice the same  *)
(* point returns 0, and the value a call returns for (a, b) is the value   *)
(* getDistance gives for (b, a).                                           *)
(***************************************************************************)
\* the call of getDistance has returned
Returned == distanceResult # <<>>

C23_HaversineIdentities ==
    Returned =>
        /\ (distanceCall.lat1 = distanceCall.lat2
            /\ distanceCall.lon1 = distanceCall.lon2)
           => distanceResult[1] = 0
        /\ distanceResult[1] = getDistance(distanceCall.lat2, distanceCall.lon2,
                                           distanceCall.lat1, distanceCall.lon1)

\* a returned call on two points that differ in latitude and in longitude
C23_Witness ==
    /\ Returned
    /\ distanceCall.lat1 # distanceCall.lat2
    /\ distanceCall.lon1 # distanceCall.lon2
    /\ distanceCall.lat1 # 0
    /\ distanceResult[1] > 0

(***************************************************************************)
(* C24.  The data filter script.  Run on a document with a features array  *)
(* of objects, the script writes the file; the file's features are the     *)
(* features of the original data whose properties.CODE is GROEN or ORANJE, *)
(* all of them, in their original order, and nothing else; every other     *)
(* top-level member of the document is in the file unchanged.              *)
(***************************************************************************)
\* the indices of the original features whose CODE is GROEN or ORANJE
KeptIndices ==
    {i \in 1..Len(originalData.features) :
        LET feature == originalData.features[i]
        IN  /\ "properties" \in DOMAIN feature
            /\ "CODE" \in DOMAIN feature.properties
            /\ feature.properties.CODE \in Categories}

\* the j-th of them in the original order
KeptIndex(j) ==
    CHOOSE i \in KeptIndices : Cardinality({m \in KeptIndices : m < i}) = j - 1

\* the script's input is a document with a features array of objects
FilterInputWellFormed ==
    /\ "features" \in DOMAIN originalData
    /\ \A i \in 1..Len(originalData.features) :
           ~IsNullFeature(originalData.features[i])

C24_FilteredFile ==
    /\ (scriptPc # "start" /\ FilterInputWellFormed) => scriptPc = "written"
    /\ scriptPc = "written" =>
           LET written == filteredFile[1]
           IN  /\ DOMAIN written = DOMAIN originalData
               /\ \A member \in DOMAIN originalData \ {"features"} :
                      written[member] = originalData[member]
               /\ Len(written.features) = Cardinality(KeptIndices)
               /\ \A j \in 1..Len(written.features) :
                      written.features[j] = originalData.features[KeptIndex(j)]

\* a written file of a document with further top-level members: an ORANJE
\* and a GROEN feature kept in that order, a feature without CODE dropped
C24_Witness ==
    /\ scriptPc = "written"
    /\ "name" \in DOMAIN originalData
    /\ Len(originalData.features) = 3
    /\ CodeOf(originalData.features[2]) = "undefined"
    /\ Len(filteredFile[1].features) = 2
    /\ filteredFile[1].features[1].properties.CODE = "ORANJE"
    /\ filteredFile[1].features[2].properties.CODE = "GROEN"

(***************************************************************************)
(* C25.  The selected-zone distance update terminates.  Whenever the       *)
(* selected-zone effect is scheduled while a zone is selected and the user *)
(* position is known (after a selection, or after a change of the          *)
(* position), the effect runs and the screen reaches a state in which no   *)
(* further run of it is scheduled.                                         *)
(***************************************************************************)
C25_SelectedEffectTerminates ==
    (selectedPending /\ selectedZone # <<>> /\ userLocation # <<>>)
        ~> ~selectedPending

(***************************************************************************)
(* C26.  The merge partitions its input.  For each category every          *)
(* classified AREA zone is a member of exactly one group, no group names a *)
(* zone twice or a zone of another list, the areas of the emitted zones    *)
(* add up to the areas of the input zones, and the number of emitted zones *)
(* is 0 when there are no input zones and else between 1 and their number. *)
(***************************************************************************)
RECURSIVE TotalArea(_)
TotalArea(zones) ==
    IF zones = <<>> THEN 0 ELSE Head(zones).area + TotalArea(Tail(zones))

C26_MergePartition ==
    PassDone =>
        \A c \in Categories :
            LET inputs == AreasOf(c)
                emitted == EmittedOf(c)
            IN  /\ GroupsPartition(c)
                /\ \A k \in 1..Len(mergeGroups[c]) :
                       /\ Cardinality(Members(c, k)) = Len(mergeGroups[c][k])
                       /\ Members(c, k) \subseteq
                              {inputs[x].id : x \in 1..Len(inputs)}
                /\ TotalArea(emitted) = TotalArea(inputs)
                /\ Len(emitted) <= Len(inputs)
                /\ (Len(inputs) > 0) => (Len(emitted) >= 1)

\* three zones of a category emitted as a merged zone and a zone on its own,
\* beside zones of the other category
C26_Witness ==
    /\ PassDone
    /\ \E c \in Categories :
           /\ Len(AreasOf(c)) = 3
           /\ Len(EmittedOf(c)) = 2
           /\ \E d \in Categories \ {c} : Len(AreasOf(d)) = 1

(***************************************************************************)
(* C27.  No transitive merging.  Every member of a group other than its    *)
(* anchor has a buffer that intersects the buffer of the anchor's own      *)
(* geometry: a zone that is near a claimed member of the group, and not    *)
(* near the anchor, is not in the group.                                   *)
(***************************************************************************)
C27_NoTransitiveMerging ==
    PassDone =>
        \A c \in Categories :
            \A k \in 1..Len(mergeGroups[c]) :
                \A m \in 2..Len(mergeGroups[c][k]) :
                    BuffersIntersect(AreaZone(mergeGroups[c][k][1]),
                                     AreaZone(mergeGroups[c][k][m]))

\* a later zone next to a claimed member of a group, not next to the
\* group's anchor, and left out of the group
C27_Witness ==
    /\ PassDone
    /\ \E c \in Categories :
           \E k \in 1..Len(mergeGroups[c]) :
               \E m \in 2..Len(mergeGroups[c][k]) :
                   \E z \in 1..Len(AreasOf(c)) :
                       /\ AreasOf(c)[z].id \notin Members(c, k)
                       /\ AnchorOf(c, GroupOf(c, z)) > AnchorOf(c, k)
                       /\ BuffersIntersect(AreaZone(mergeGroups[c][k][m]),
                                           AreasOf(c)[z])
                       /\ ~BuffersIntersect(AreaZone(mergeGroups[c][k][1]),
                                            AreasOf(c)[z])

(***************************************************************************)
(* C28.  The nearest list tracks the current position.  In every state     *)
(* after the load in which the nearest-zones effect is not pending, the    *)
(* nearest list is empty or is the ranking of the Zone Store from the      *)
(* current user position; when the position is unavailable (a refresh      *)
(* ended in permission denied or in an error) the list is empty.           *)
(***************************************************************************)
C28_NearestListCurrent ==
    (PassDone /\ ~nearestPending) =>
        \/ nearestZones = <<>>
        \/ /\ userLocation # <<>>
           /\ nearestZones \in NearestOutcomes(processedZones, userLocation[1])

(***************************************************************************)
(* C29.  A single location request in flight.  At most one call of         *)
(* refreshUserLocation is pending at any time; while one is pending the    *)
(* Refresh Location button cannot be pressed (the screen shows the loading *)
(* view, or the button is disabled by the status 'Refreshing...' or        *)
(* 'Fetching...', or the screen is unmounted), so a request starts only    *)
(* when no earlier one is pending.                                         *)
(***************************************************************************)
C29_SingleRequestInFlight ==
    /\ pendingRequests <= 1
    /\ pendingRequests = 1 =>
           \/ ~isMounted
           \/ loading
           \/ locationStatus \in {"Fetching...", "Refreshing..."}

\* a refresh, started after the initial fetch gave a position, is waiting
\* for the position
C29_Witness ==
    /\ pendingRequests = 1
    /\ isMounted
    /\ ~loading
    /\ positionObtained
    /\ pc = "awaitPosition"

(***************************************************************************)
(* C30.  No state updates after unmount.  Once the screen is unmounted     *)
(* while the initialization is still under way (loading is set until its   *)
(* finally block), no step changes any state of the screen: neither the    *)
(* zone list, loading or the error, nor the location status and the user   *)
(* position that the initial location fetch sets when it completes.        *)
(***************************************************************************)
C30_NoUpdateAfterUnmount ==
    [][(~isMounted /\ loading) =>
          UNCHANGED <<processedZones, loading, error, locationStatus,
                      userLocation, nearestZones, selectedZone>>]_vars

====
